---- MODULE Spec2Model ----
(***************************************************************************)
(* Model of src/gui.c: the Screen structure (a width x height array of     *)
(* bool pixels plus the array of glyph indices rendered from it), the      *)
(* 2x3-block packing boolsToInt, and the status/return-code convention.    *)
(*                                                                         *)
(* C values are modelled by what the build stores: bool is 0 or 1,         *)
(* uint8_t arguments are taken modulo 2^8, a pointer is NULL, a live heap  *)
(* block with its cells, or an indeterminate ("wild") value.  An access    *)
(* through a NULL or wild pointer, or past the end of a block, is          *)
(* undefined behaviour; the model records it in `fault` and stops there.   *)
(* The `flags` field is stored by initScreen and read nowhere; the scr ==  *)
(* NULL branches and the terminal functions take no part in the model.     *)
(***************************************************************************)
EXTENDS Integers, Sequences, FiniteSets, TLC

\* ------------------------------------------------------------------ bounds
\* Widths passed to initScreen/resizeScreen are 1..MaxW.
MaxW == 2
\* Heights passed to initScreen/resizeScreen are 1..MaxH and UINT8_MAX.
MaxH == 3
\* Pixel coordinates passed to get/setScreenPixel are 0..MaxX (resp. 0..MaxY)
\* and UINT8_MAX.
MaxX == 1
MaxY == 1
\* Calls made on one Screen object.
MaxOps == 3

\* ------------------------------------------------------- program constants
SCREEN_READY == 1
SCREEN_SUCCESS == 2
SCREEN_ERROR == 4
SCREEN_READY_BIT == SCREEN_READY * 256
SCREEN_SUCCESS_BIT == SCREEN_SUCCESS * 256
SCREEN_ERROR_BIT == SCREEN_ERROR * 256
\* The size the get/set recovery path passes to initScreen.
DEFAULT_SIZE == 20
\* Largest value of a uint8_t field or argument.
UINT8_MAX == 255

\* Conversion of an int to uint8_t / uint16_t.
U8(n) == n % 256
U16(n) == n % 65536

\* The glyph table, as the code points of its 64 one-character strings.
char_map ==
  << 32, 118384, 118368, 118400, 118360, 118392, 118376, 118408,
     118356, 118388, 118372, 118404, 118364, 118396, 118380, 118412,
     118354, 118386, 118370, 118402, 118362, 118394, 118378, 118410,
     118358, 118390, 118374, 118406, 118366, 118398, 118382, 118414,
     118353, 118385, 118369, 118401, 118361, 118393, 118377, 118409,
     118357, 118389, 118373, 118405, 118365, 118397, 118381, 118413,
     118355, 118387, 118371, 118403, 118363, 118395, 118379, 118411,
     118359, 118391, 118375, 118407, 118367, 118399, 118383, 118415 >>

\* ------------------------------------------------------------- boolsToInt
\* a | b for a bool b (0 or 1): sets bit 0 of a.
OrBit(a, b) == IF a % 2 = 1 THEN a ELSE a + b

\* The loop of boolsToInt from index i with accumulator result:
\* result = (result << 1) | (uint8_t) arr[i].
RECURSIVE boolsToIntLoop(_, _, _)
boolsToIntLoop(arr, i, result) ==
  IF i < 6
    THEN boolsToIntLoop(arr, i + 1, U8(OrBit(result * 2, arr[i])))
    ELSE result

\* Mutation: the bits are folded least-significant first.
boolsToInt_lsbFirst(arr) ==
  arr[0] + 2 * arr[1] + 4 * arr[2] + 8 * arr[3] + 16 * arr[4] + 32 * arr[5]

boolsToInt(arr) == boolsToIntLoop(arr, 0, 0)

\* char_map[boolsToInt(arr)]; C indexes from 0, the tuple from 1.  An index
\* outside the table yields -1 (an out-of-bounds read in C).
boolsToString(arr) ==
  LET i == boolsToInt(arr)
  IN  IF i + 1 \in DOMAIN char_map THEN char_map[i + 1] ELSE -1

\* ------------------------------------------------------ return convention
\* ((uint16_t)status << 8) | data: the low byte of the shifted status is 0,
\* so the OR with the byte data is their sum.
joinReturn(status, data) == U16((status * 256) + data)

returnError(value) ==
  IF (value \div 256) * 256 = SCREEN_SUCCESS_BIT THEN 0 ELSE U8(value \div 256)

returnData(value) == U8(value % 256)

\* ----------------------------------------------------------------- memory
NULL == [ptr |-> "null", mem |-> << >>]
WILD == [ptr |-> "wild", mem |-> << >>]

\* calloc(n, 1): a block of n zero bytes, or NULL when the allocation fails.
calloc(n, ok) ==
  IF ok THEN [ptr |-> "heap", mem |-> [i \in 0 .. (n - 1) |-> 0]] ELSE NULL

\* p[i] is a defined access.
Valid(p, i) == p.ptr = "heap" /\ i \in DOMAIN p.mem

\* free(p) is defined: p is NULL or a live block.
Freeable(p) == p.ptr # "wild"

\* ----------------------------------------------------------------- Screen
\* A Screen value: the fields of the struct.  Every function below maps a
\* Screen (and its arguments) to [scr, ret, fault]: the Screen it leaves, the
\* value it returns (NoRet for void) and whether it ran into undefined
\* behaviour.  okD and okR say whether the calloc of the pixel array and of
\* the glyph array succeed, should the function reach them.
NoRet == 0 - 1

Screen(status, width, height, data, render) ==
  [status |-> status, width |-> width, height |-> height,
   data |-> data, render |-> render]

Result(s, r, f) == [scr |-> s, ret |-> r, fault |-> f]

\* Mutation: the glyph array is sized without the +1 padding.
initScreen_noPad(s, width, height, okD, okR) ==
  LET data == calloc(width * height, okD)
      render == calloc((width \div 2) * (height \div 3), okR)
      ret == IF data = NULL \/ render = NULL THEN SCREEN_ERROR ELSE SCREEN_SUCCESS
  IN  Result(Screen(SCREEN_READY, width, height, data, render),
             joinReturn(ret, 0), FALSE)

\* Mutation: only the pixel array's allocation is checked.
initScreen_dataOnly(s, width, height, okD, okR) ==
  LET data == calloc(width * height, okD)
      render == calloc(((width \div 2) + 1) * ((height \div 3) + 1), okR)
      ret == IF data = NULL THEN SCREEN_ERROR ELSE SCREEN_SUCCESS
  IN  Result(Screen(SCREEN_READY, width, height, data, render),
             joinReturn(ret, 0), FALSE)

initScreen(s, width, height, okD, okR) ==
  LET data == calloc(width * height, okD)
      render == calloc(((width \div 2) + 1) * ((height \div 3) + 1), okR)
      ret == IF data = NULL \/ render = NULL THEN SCREEN_ERROR ELSE SCREEN_SUCCESS
  IN  Result(Screen(SCREEN_READY, width, height, data, render),
             joinReturn(ret, 0), FALSE)

resizeScreen(s, width, height, okD, okR) ==
  IF s.data # NULL /\ ~(Freeable(s.data) /\ Freeable(s.render))
    THEN \* free() of an indeterminate pointer
         Result(s, NoRet, TRUE)
    ELSE LET data == calloc(width * height, okD)
             render == calloc(((width \div 2) + 1) * ((height \div 3) + 1), okR)
             ret == IF data = NULL \/ render = NULL
                      THEN SCREEN_ERROR ELSE SCREEN_SUCCESS
         IN  Result(Screen(s.status, width, height, data, render),
                    joinReturn(ret, 0), FALSE)

\* Mutation: the bounds test is off by one (> in place of >=).
getScreenPixel_offByOne(s, x, y, okD, okR) ==
  IF s.status # SCREEN_READY
    THEN Result(initScreen(s, DEFAULT_SIZE, DEFAULT_SIZE, okD, okR).scr, 0, FALSE)
  ELSE IF x > s.width \/ y > s.height
    THEN Result(s, 0, FALSE)
  ELSE IF ~Valid(s.data, (y * s.width) + x)
    THEN Result(s, NoRet, TRUE)
  ELSE Result(s, s.data.mem[(y * s.width) + x], FALSE)

getScreenPixel(s, x, y, okD, okR) ==
  IF s.status # SCREEN_READY
    THEN Result(initScreen(s, DEFAULT_SIZE, DEFAULT_SIZE, okD, okR).scr, 0, FALSE)
  ELSE IF x >= s.width \/ y >= s.height
    THEN Result(s, 0, FALSE)
  ELSE IF ~Valid(s.data, (y * s.width) + x)
    THEN Result(s, NoRet, TRUE)
  ELSE Result(s, s.data.mem[(y * s.width) + x], FALSE)

\* Mutation: the index is computed with x and y exchanged.
setScreenPixel_transposed(s, x, y, value, okD, okR) ==
  IF s.status # SCREEN_READY
    THEN Result(initScreen(s, DEFAULT_SIZE, DEFAULT_SIZE, okD, okR).scr,
                joinReturn(SCREEN_ERROR, 0), FALSE)
  ELSE IF x >= s.width \/ y >= s.height
    THEN Result(s, 0, FALSE)
  ELSE IF ~Valid(s.data, (x * s.width) + y)
    THEN Result(s, NoRet, TRUE)
  ELSE Result([s EXCEPT !.data.mem[(x * s.width) + y] = value],
              joinReturn(SCREEN_SUCCESS, 0), FALSE)

\* Mutation: the recovery path reports success.
setScreenPixel_recoverOk(s, x, y, value, okD, okR) ==
  IF s.status # SCREEN_READY
    THEN Result(initScreen(s, DEFAULT_SIZE, DEFAULT_SIZE, okD, okR).scr,
                joinReturn(SCREEN_SUCCESS, 0), FALSE)
  ELSE IF x >= s.width \/ y >= s.height
    THEN Result(s, 0, FALSE)
  ELSE IF ~Valid(s.data, (y * s.width) + x)
    THEN Result(s, NoRet, TRUE)
  ELSE Result([s EXCEPT !.data.mem[(y * s.width) + x] = value],
              joinReturn(SCREEN_SUCCESS, 0), FALSE)

setScreenPixel(s, x, y, value, okD, okR) ==
  IF s.status # SCREEN_READY
    THEN Result(initScreen(s, DEFAULT_SIZE, DEFAULT_SIZE, okD, okR).scr,
                joinReturn(SCREEN_ERROR, 0), FALSE)
  ELSE IF x >= s.width \/ y >= s.height
    THEN Result(s, 0, FALSE)
  ELSE IF ~Valid(s.data, (y * s.width) + x)
    THEN Result(s, NoRet, TRUE)
  ELSE Result([s EXCEPT !.data.mem[(y * s.width) + x] = value],
              joinReturn(SCREEN_SUCCESS, 0), FALSE)

\* renderScreen visits the cells of the glyph grid row by row; cell k (from
\* 0) is x = k % width, y = k \div width.  For each it calls getScreenPixel
\* six times, on coordinates converted to its uint8_t parameters, and stores
\* boolsToInt of the six results at index (y*width)+x.  Only the very first
\* call can find status # SCREEN_READY (it leaves SCREEN_READY behind), so
\* every later call reads the Screen `first` left and changes nothing, and
\* the loop's result is the array of the cells' values.  Undefined behaviour
\* in any read or store ends the run.  writes lists the indices stored to,
\* in the loop's order.
renderScreen(s, okD, okR) ==
  LET width == U8((s.width \div 2) + 1)
      height == U8((s.height \div 3) + 1)
      cells == width * height
      first == getScreenPixel(s, U8(0), U8(0), okD, okR)
      s1 == first.scr
      x(k) == k % width
      y(k) == k \div width
      index(k) == U16((y(k) * width) + x(k))
      \* inp[0..5] of cell k, each with the fault flag of its call
      inp == [k \in 0 .. (cells - 1) |->
                [i \in 0 .. 5 |->
                   IF k = 0 /\ i = 0 THEN first
                   ELSE getScreenPixel(s1, U8((x(k) * 2) + (i % 2)),
                                       U8((y(k) * 3) + (i \div 2)), okD, okR)]]
      bad == \E k \in 0 .. (cells - 1) :
               \/ \E i \in 0 .. 5 : inp[k][i].fault
               \/ ~Valid(s1.render, index(k))
  IN  IF bad THEN [scr |-> s1, fault |-> TRUE, writes |-> << >>]
      ELSE [scr |-> [s1 EXCEPT !.render.mem =
                       [j \in DOMAIN @ |->
                          IF j < cells
                            THEN boolsToInt([i \in 0 .. 5 |-> inp[j][i].ret])
                            ELSE @[j]]],
            fault |-> FALSE,
            writes |-> [k \in 1 .. cells |-> index(k - 1)]]

destroyScreen(s) ==
  IF ~Freeable(s.data) \/ ~Freeable(s.render)
    THEN Result(s, NoRet, TRUE)
    ELSE Result([s EXCEPT !.data = NULL, !.render = NULL], NoRet, FALSE)

\* ------------------------------------------------------------------ state
VARIABLES
  scr,      \* the Screen
  call,     \* the last call: its name, arguments, and the status it found
  ret,      \* the value the last call returned (NoRet for void)
  writes,   \* the indices of scr->render the last renderScreen stored to
  fault,    \* a call ran into undefined behaviour
  ops,      \* the number of calls made so far
  inpA, inpB,   \* two 6-bool arrays (boolsToInt's inputs)
  packed        \* << >>, or what boolsToInt/boolsToString returned for them

vars == <<scr, call, ret, writes, fault, ops, inpA, inpB, packed>>

Widths == 1 .. MaxW
Heights == (1 .. MaxH) \cup {UINT8_MAX}
Xs == (0 .. MaxX) \cup {UINT8_MAX}
Ys == (0 .. MaxY) \cup {UINT8_MAX}
Bool == {0, 1}
Blocks == [0 .. 5 -> Bool]

\* The outcomes of the two callocs of a call: both may fail when the call
\* reaches them, and there is nothing to choose when it does not.
Allocs(reached) == IF reached THEN BOOLEAN ELSE {TRUE}

NoCall == [op |-> "none", x |-> 0, y |-> 0, v |-> 0, status |-> 0]

Call(op, x, y, v) ==
  [op |-> op, x |-> x, y |-> y, v |-> v, status |-> scr.status]

\* A Screen object before initScreen: every field is indeterminate.
Init ==
  /\ scr \in [status : {0, SCREEN_READY, SCREEN_ERROR},
              width : Widths, height : Heights,
              data : {NULL, WILD}, render : {NULL, WILD}]
  /\ call = NoCall
  /\ ret = NoRet
  /\ writes = << >>
  /\ fault = FALSE
  /\ ops = 0
  /\ inpA = [i \in 0 .. 5 |-> 0]
  /\ inpB = [i \in 0 .. 5 |-> 0]
  /\ packed = << >>

\* One call: r is what the function makes of scr, c the record of the call,
\* w the render indices it stored to.
Apply(r, c, w) ==
  /\ ~fault
  /\ ops < MaxOps
  /\ ops' = ops + 1
  /\ scr' = r.scr
  /\ ret' = r.ret
  /\ fault' = r.fault
  /\ call' = c
  /\ writes' = w
  /\ UNCHANGED <<inpA, inpB, packed>>

InitScreen ==
  \E w \in Widths, h \in Heights, okD, okR \in BOOLEAN :
    Apply(initScreen(scr, w, h, okD, okR), Call("initScreen", w, h, 0), << >>)

ResizeScreen ==
  \E w \in Widths, h \in Heights, okD, okR \in BOOLEAN :
    Apply(resizeScreen(scr, w, h, okD, okR), Call("resizeScreen", w, h, 0), << >>)

GetScreenPixel ==
  \E x \in Xs, y \in Ys, okD, okR \in Allocs(scr.status # SCREEN_READY) :
    Apply(getScreenPixel(scr, x, y, okD, okR),
          Call("getScreenPixel", x, y, 0), << >>)

SetScreenPixel ==
  \E x \in Xs, y \in Ys, v \in Bool,
     okD, okR \in Allocs(scr.status # SCREEN_READY) :
    Apply(setScreenPixel(scr, x, y, v, okD, okR),
          Call("setScreenPixel", x, y, v), << >>)

RenderScreen ==
  \E okD, okR \in Allocs(scr.status # SCREEN_READY) :
    LET r == renderScreen(scr, okD, okR)
    IN  Apply(Result(r.scr, NoRet, r.fault),
              Call("renderScreen", 0, 0, 0), r.writes)

DestroyScreen ==
  Apply(destroyScreen(scr), Call("destroyScreen", 0, 0, 0), << >>)

Next ==
  \/ InitScreen
  \/ ResizeScreen
  \/ GetScreenPixel
  \/ SetScreenPixel
  \/ RenderScreen
  \/ DestroyScreen

Spec == Init /\ [][Next]_vars

\* ------------------------------------------ boolsToInt on its own inputs
InitPack ==
  /\ scr = Screen(0, 1, 1, NULL, NULL)
  /\ call = NoCall
  /\ ret = NoRet
  /\ writes = << >>
  /\ fault = FALSE
  /\ ops = 0
  /\ inpA \in Blocks
  /\ inpB \in Blocks
  /\ packed = << >>

BoolsToInt ==
  /\ packed = << >>
  /\ packed' = [op |-> "boolsToInt", a |-> boolsToInt(inpA), b |-> boolsToInt(inpB)]
  /\ UNCHANGED <<scr, call, ret, writes, fault, ops, inpA, inpB>>

BoolsToString ==
  /\ packed = << >>
  /\ packed' = [op |-> "boolsToString", a |-> boolsToString(inpA),
                b |-> boolsToString(inpB)]
  /\ UNCHANGED <<scr, call, ret, writes, fault, ops, inpA, inpB>>

NextPack == BoolsToInt \/ BoolsToString

SpecPack == InitPack /\ [][NextPack]_vars

\* ----------------------------------------------------------------- claims
\* The Screen is Ready: status says so and both arrays are allocated.
Ready(s) ==
  s.status = SCREEN_READY /\ s.data.ptr = "heap" /\ s.render.ptr = "heap"

\* What getScreenPixel(x, y) returns on s, and whether the call is defined.
Get(s, x, y) == getScreenPixel(s, x, y, TRUE, TRUE)

glyphWidth(s) == (s.width \div 2) + 1
glyphHeight(s) == (s.height \div 3) + 1
glyphCells(s) == glyphWidth(s) * glyphHeight(s)

\* p(x, y) of a block: 1 if (x, y) is inside the buffer and set, else 0.
p(s, x, y) ==
  IF x < s.width /\ y < s.height THEN s.data.mem[(y * s.width) + x] ELSE 0

\* Some pixel of the buffer is set.
SomePixelSet(s) ==
  s.data.ptr = "heap" /\ \E i \in DOMAIN s.data.mem : s.data.mem[i] = 1

InRangeSet ==
  /\ call.op = "setScreenPixel"
  /\ call.status = SCREEN_READY
  /\ call.x < scr.width
  /\ call.y < scr.height

\* C1: on a Ready screen, setScreenPixel(x, y, v) with x < width and
\* y < height is defined, and afterwards getScreenPixel(x, y) returns v while
\* every other pixel reads what it read before the call.
C1_SetThenGet ==
  [][(/\ call'.op = "setScreenPixel"
      /\ Ready(scr)
      /\ call'.x < scr.width
      /\ call'.y < scr.height)
     => /\ ~fault'
        /\ \A x \in 0 .. scr.width, y \in 0 .. scr.height :
             /\ ~Get(scr', x, y).fault
             /\ Get(scr', x, y).ret =
                  IF x = call'.x /\ y = call'.y THEN call'.v
                  ELSE Get(scr, x, y).ret]_vars

\* C1 witness: a pixel other than (0,0) was set to true on a Ready screen
\* and reads true.
C1_Witness ==
  /\ InRangeSet
  /\ ~fault
  /\ call.v = 1
  /\ call.x + call.y > 0
  /\ ret = joinReturn(SCREEN_SUCCESS, 0)
  /\ Get(scr, call.x, call.y).ret = 1

\* C2: when status is SCREEN_READY and x >= width or y >= height,
\* getScreenPixel(x, y) returns false and setScreenPixel(x, y, v) changes no
\* field of the Screen and no cell of either array.
C2_OutOfRange ==
  [][(/\ call'.op \in {"getScreenPixel", "setScreenPixel"}
      /\ scr.status = SCREEN_READY
      /\ (call'.x >= scr.width \/ call'.y >= scr.height))
     => /\ ~fault'
        /\ scr' = scr
        /\ call'.op = "getScreenPixel" => ret' = 0]_vars

\* C2 witness: setScreenPixel(width, y, true) was called on a screen that has
\* a pixel set.
C2_Witness ==
  /\ call.op = "setScreenPixel"
  /\ call.status = SCREEN_READY
  /\ call.x = scr.width
  /\ call.y < scr.height
  /\ call.v = 1
  /\ SomePixelSet(scr)

\* C3: after renderScreen on a Ready screen, the glyph cell of every block
\* (bx, by) of the glyph grid holds 32*p(2bx,3by) + 16*p(2bx+1,3by) +
\* 8*p(2bx,3by+1) + 4*p(2bx+1,3by+1) + 2*p(2bx,3by+2) + p(2bx+1,3by+2).
C3_RenderPacksBlocks ==
  [][(call'.op = "renderScreen" /\ Ready(scr))
     => /\ ~fault'
        /\ \A bx \in 0 .. (glyphWidth(scr) - 1), by \in 0 .. (glyphHeight(scr) - 1) :
             scr'.render.mem[(by * glyphWidth(scr)) + bx] =
                 (32 * p(scr, 2 * bx, 3 * by))
               + (16 * p(scr, (2 * bx) + 1, 3 * by))
               + (8 * p(scr, 2 * bx, (3 * by) + 1))
               + (4 * p(scr, (2 * bx) + 1, (3 * by) + 1))
               + (2 * p(scr, 2 * bx, (3 * by) + 2))
               + p(scr, (2 * bx) + 1, (3 * by) + 2)]_vars

\* C4: after renderScreen on a Ready screen, every glyph cell whose block
\* lies wholly beyond the right edge (column width/2, width even) or the
\* bottom edge (row height/3, height a multiple of 3) holds index 0.
C4_PaddingCellsZero ==
  (call.op = "renderScreen" /\ call.status = SCREEN_READY /\ ~fault /\ Ready(scr))
  => \A bx \in 0 .. (glyphWidth(scr) - 1), by \in 0 .. (glyphHeight(scr) - 1) :
       (\/ (scr.width % 2 = 0 /\ bx = scr.width \div 2)
        \/ (scr.height % 3 = 0 /\ by = scr.height \div 3))
       => scr.render.mem[(by * glyphWidth(scr)) + bx] = 0

\* C5: boolsToInt(arr) is the integer whose bit 5-i is arr[i]; it lies in
\* 0..63, is 0 for all-false and 63 for all-true, distinct arrays give
\* distinct integers (so the 64 arrays fill 0..63), and boolsToString finds
\* an entry of the 64-entry table at that index.
C5_BoolsToIntBijection ==
  LET bits(arr) == (32 * arr[0]) + (16 * arr[1]) + (8 * arr[2])
                   + (4 * arr[3]) + (2 * arr[4]) + arr[5]
  IN  /\ (packed # << >> /\ packed.op = "boolsToInt")
         => /\ packed.a \in 0 .. 63
            /\ \A i \in 0 .. 5 : (packed.a \div (2 ^ (5 - i))) % 2 = inpA[i]
            /\ (packed.a = packed.b) <=> (inpA = inpB)
            /\ (\A i \in 0 .. 5 : inpA[i] = 0) => packed.a = 0
            /\ (\A i \in 0 .. 5 : inpA[i] = 1) => packed.a = 63
      /\ (packed # << >> /\ packed.op = "boolsToString")
         => /\ Len(char_map) = 64
            /\ packed.a = char_map[bits(inpA) + 1]

\* C5 witness: boolsToInt was applied to two different arrays, one of them
\* top-left only.
C5_Witness ==
  /\ packed # << >>
  /\ packed.op = "boolsToInt"
  /\ inpA # inpB
  /\ inpA = [i \in 0 .. 5 |-> IF i = 0 THEN 1 ELSE 0]
  /\ packed.a = 32

\* C6: after resizeScreen(w2, h2) reports success, getScreenPixel returns
\* false and leaves the w2 x h2 screen alone, and setScreenPixel(x, y, v) with
\* x < w2 and y < h2 succeeds on the w2 x h2 screen, after which
\* getScreenPixel(x, y) returns v.
C6_ResizeAsCreate ==
  [][(call.op = "resizeScreen" /\ ~fault /\ returnError(ret) = 0)
     => /\ call'.op = "getScreenPixel"
           => /\ ~fault'
              /\ ret' = 0
              /\ scr'.width = call.x
              /\ scr'.height = call.y
        /\ (call'.op = "setScreenPixel" /\ call'.x < call.x /\ call'.y < call.y)
           => /\ ~fault'
              /\ returnError(ret') = 0
              /\ scr'.width = call.x
              /\ scr'.height = call.y
              /\ Get(scr', call'.x, call'.y).ret = call'.v]_vars

\* C7: the glyph array a successful initScreen/resizeScreen allocates has
\* N = ((width/2)+1)*((height/3)+1) cells, and renderScreen on a Ready screen
\* stores to each index 0..N-1 exactly once, a value in 0..63, and to no
\* index >= N.
C7_GlyphArrayCoverage ==
  [][/\ (call'.op \in {"initScreen", "resizeScreen"} /\ scr'.render.ptr = "heap")
        => DOMAIN scr'.render.mem = 0 .. (glyphCells(scr') - 1)
     /\ (call'.op = "renderScreen" /\ Ready(scr))
        => /\ ~fault'
           /\ Len(writes') = glyphCells(scr)
           /\ {writes'[k] : k \in DOMAIN writes'} = 0 .. (glyphCells(scr) - 1)
           /\ DOMAIN scr'.render.mem = 0 .. (glyphCells(scr) - 1)
           /\ \A i \in DOMAIN scr'.render.mem : scr'.render.mem[i] \in 0 .. 63]_vars

\* C7 witness: renderScreen ran on a Ready screen of more than one cell and
\* stored a non-zero cell.
C7_Witness ==
  /\ call.op = "renderScreen"
  /\ call.status = SCREEN_READY
  /\ ~fault
  /\ Ready(scr)
  /\ Len(writes) = glyphCells(scr)
  /\ glyphCells(scr) > 2
  /\ \E i \in DOMAIN scr.render.mem : scr.render.mem[i] # 0

\* C8: initScreen and resizeScreen return a value whose returnError is
\* non-zero (SCREEN_ERROR) exactly when the pixel array or the glyph array
\* was not allocated, and 0 when both were.
C8_AllocationFailureReported ==
  (call.op \in {"initScreen", "resizeScreen"} /\ ~fault)
  => /\ (returnError(ret) # 0) <=> (scr.data = NULL \/ scr.render = NULL)
     /\ returnError(ret) \in {0, SCREEN_ERROR}
     /\ returnData(ret) = 0

\* C8 witness: resizeScreen allocated the pixel array, failed to allocate the
\* glyph array, and returned SCREEN_ERROR.
C8_Witness ==
  /\ call.op = "resizeScreen"
  /\ ~fault
  /\ scr.data.ptr = "heap"
  /\ scr.render = NULL
  /\ returnError(ret) = SCREEN_ERROR

\* Every pixel of the buffer can be read and reads false.
AllPixelsFalse(s) ==
  \A x \in 0 .. (s.width - 1), y \in 0 .. (s.height - 1) :
    ~Get(s, x, y).fault /\ Get(s, x, y).ret = 0

NotReadyCall ==
  /\ call.op \in {"getScreenPixel", "setScreenPixel"}
  /\ call.status # SCREEN_READY

C10_ReadyImpliesAllocated ==
  (ops > 0 /\ scr.status = SCREEN_READY)
  => /\ Ready(scr)
     /\ DOMAIN scr.data.mem = 0 .. ((scr.width * scr.height) - 1)
     /\ DOMAIN scr.render.mem = 0 .. (glyphCells(scr) - 1)

====
